---------------------------- MODULE Spec2Model ----------------------------
(***************************************************************************)
(* A model of aegis-core's detection-merge, redaction and restoration      *)
(* pipeline: scanner.CompositeScanner.Scan, redactor.Redact with its       *)
(* Counter, restorer.Restore and restorer.StreamRestorer.                  *)
(*                                                                         *)
(* A Go string is modelled as a sequence of bytes, each byte written as a  *)
(* short string ("a", "[", "xC3").  Go's s[i:j] is Slice(s, i, j).         *)
(***************************************************************************)
EXTENDS Integers, Sequences, FiniteSets, TLC

VARIABLES
    phase,        \* which call of the component under study ran last
    \* restorer.StreamRestorer and its driver
    srMappings,   \* sr.mappings (sorted longest token first)
    srBuffer,     \* sr.buffer
    input,        \* the whole tokenized text the caller streams
    table,        \* the mapping table the caller passed to NewStreamRestorer
    pos,          \* how many bytes of input have been fed so far
    emitted,      \* concatenation of everything Process/Flush returned
    flushes,      \* number of Flush calls so far
    misuse,       \* TRUE once Process was called after a Flush
    procCalls,    \* the calls goroutines are making on one StreamRestorer
    \* redactor.Redact / restorer.Restore
    text,         \* the text passed to Redact
    entities,     \* the entity list passed to Redact
    result,       \* the RedactResult (plus the tagged list), or NoResult
    restored,     \* Restore(result.SanitizedText, result.Mappings), or NoResult
    redactCalls,  \* the Redact calls goroutines are making
    \* scanner.CompositeScanner
    scanners,     \* cs.scanners
    allowlist,    \* cs.allowlist
    scanText,     \* the text passed to Scan
    scanOut       \* what Scan computed (normalized text, all, deduped, out), or NoResult

vars == <<phase, srMappings, srBuffer, input, table, pos, emitted, flushes,
          misuse, procCalls, text, entities, result, restored, redactCalls,
          scanners, allowlist, scanText, scanOut>>

streamVars == <<srMappings, srBuffer, input, table, pos, emitted, flushes, misuse,
                procCalls>>
redactVars == <<text, entities, result, restored, redactCalls>>
scanVars == <<scanners, allowlist, scanText, scanOut>>

NoResult == [none |-> TRUE]

-----------------------------------------------------------------------------
(* Bounds of the model.                                                    *)

MaxPieces == 2      \* a streamed text is built from at most this many pieces
MaxMappings == 2    \* entries of a mapping table handed to the restorer
MaxFlushes == 2     \* Flush calls modelled on one StreamRestorer
MaxTextPieces == 3  \* a text passed to Redact is built from at most this many pieces
MaxEnts == 3        \* entities passed to one Redact call
MaxScanPieces == 3  \* a text passed to the regex scanners is built from at most this many pieces
MaxScanners == 2    \* scanners of one CompositeScanner
MaxAllow == 2       \* patterns of one allowlist
MaxMergeLen == 3    \* bytes of a text handed to opaque detectors
MaxReturned == 3    \* candidates the opaque detector returns
MaxEncPieces == 3   \* a text with stray bytes is built from at most this many pieces
NumGoroutines == 2  \* goroutines sharing one StreamRestorer, or calling Redact
MaxScoreLen == 3    \* bytes of a text handed to a detector that scores each candidate
MaxScoreReturned == 2 \* candidates such a detector returns
MaxRawLen == 2      \* bytes of a text handed to a detector that may misreport
MaxRawReturned == 2 \* candidates a detector that may misreport returns
MaxNormPieces == 3  \* pieces of a text scanned in two normalization forms
MaxOverlapLen == 7  \* bytes of a text redacted with overlapping candidates
MaxOverlapEnts == 2 \* overlapping candidates passed to Redact
MaxOrderLen == 6    \* bytes of a text handed to scanners that report the same spans

\* the goroutines of a concurrent scenario
Goroutines == 1..NumGoroutines

-----------------------------------------------------------------------------
(* Go strings and the strings package.                                     *)

\* s[i:j]
Slice(s, i, j) == SubSeq(s, i + 1, j)

\* strings.HasPrefix(s[i:], t)
HasPrefixAt(s, i, t) ==
    /\ i + Len(t) <= Len(s)
    /\ \A k \in 1..Len(t) : s[i + k] = t[k]

\* strings.Contains(s, t)
Contains(s, t) == \E i \in 0..Len(s) : HasPrefixAt(s, i, t)

\* strings.LastIndex(s, t) for a one-byte t; -1 when absent
LastIndex(s, t) ==
    LET hits == {i \in 0..(Len(s) - 1) : HasPrefixAt(s, i, t)}
    IN  IF hits = {} THEN -1 ELSE CHOOSE i \in hits : \A j \in hits : j <= i

\* strings.ReplaceAll(s, old, new) for a non-empty old: the non-overlapping
\* occurrences of old, found left to right, are each replaced by new.
RECURSIVE ReplaceFrom(_, _, _, _)
ReplaceFrom(s, i, old, new) ==
    IF i >= Len(s) THEN <<>>
    ELSE IF HasPrefixAt(s, i, old)
         THEN new \o ReplaceFrom(s, i + Len(old), old, new)
         ELSE <<s[i + 1]>> \o ReplaceFrom(s, i + 1, old, new)

ReplaceAll(s, old, new) == ReplaceFrom(s, 0, old, new)

\* sort.Slice on a short slice: every Go release sorts a slice of at most 6
\* elements by insertion sort alone, so equal elements keep their order.
\* less[i][j] is the caller's less function on the elements i and j of the
\* slice as passed; sorted is a sequence of such indices.
InsertSorted(sorted, x, less) ==
    LET stay == {j \in 1..Len(sorted) : ~less[x][sorted[j]]}
        k == IF stay = {} THEN 0 ELSE CHOOSE j \in stay : \A i \in stay : i <= j
    IN  SubSeq(sorted, 1, k) \o <<x>> \o SubSeq(sorted, k + 1, Len(sorted))

SortSlice(s, less) ==
    LET f[i \in 0..Len(s)] == IF i = 0 THEN <<>> ELSE InsertSorted(f[i - 1], i, less)
    IN  [k \in 1..Len(s) |-> s[f[Len(s)][k]]]

\* sort.Slice on a longer slice.  The library documents the sort as not
\* stable.  From 7 to 12 elements the Go 1.18 library (the first release with
\* the type "any", which the repository uses) runs one pass
\*   for i := a + 6; i < b; i++ { if less(i, i-6) { swap(i, i-6) } }
\* before its insertion sort, and the later releases run the insertion sort
\* alone; the repository pins no release, so both are outcomes of a build.
ShellGap == 6

InsertionMax == 12

\* The order of the indices after the pass with gap 6 (at most 12 elements,
\* so no position is swapped twice).
ShellPass(n, less) ==
    [i \in 1..n |->
        IF i > ShellGap /\ less[i][i - ShellGap] THEN i - ShellGap
        ELSE IF i + ShellGap <= n /\ less[i + ShellGap][i] THEN i + ShellGap
        ELSE i]

\* insertion sort of the indices, taken in the given order
InsertionSortFrom(order, less) ==
    LET f[i \in 0..Len(order)] ==
            IF i = 0 THEN <<>> ELSE InsertSorted(f[i - 1], order[i], less)
    IN  f[Len(order)]

\* Beyond 12 elements every release partitions around a pivot; the model keeps
\* what the library promises: some order of the indices that agrees with less.
RECURSIVE SortedOrders(_, _)
SortedOrders(rem, less) ==
    IF rem = {} THEN {<<>>}
    ELSE UNION {{<<i>> \o rest : rest \in SortedOrders(rem \ {i}, less)} :
                    i \in {i \in rem : \A j \in rem : ~less[j][i]}}

\* The results sort.Slice can leave in the slice.
SortSliceOutcomes(s, less) ==
    LET n == Len(s)
        ident == [i \in 1..n |-> i]
        orders == IF n <= ShellGap THEN {InsertionSortFrom(ident, less)}
                  ELSE IF n <= InsertionMax
                       THEN {InsertionSortFrom(ident, less),
                             InsertionSortFrom(ShellPass(n, less), less)}
                       ELSE SortedOrders(1..n, less)
    IN  {[k \in 1..n |-> s[o[k]]] : o \in orders}

-----------------------------------------------------------------------------
(* restorer.Restore and restorer.StreamRestorer                            *)

Mapping(tok, orig, typ) == [Token |-> tok, Original |-> orig, Type |-> typ]

LongerToken(a, b) == Len(a.Token) > Len(b.Token)

\* the loop "for _, m := range sorted { text = strings.ReplaceAll(...) }"
ApplyMappings(s, ms) ==
    LET f[i \in 0..Len(ms)] ==
            IF i = 0 THEN s ELSE ReplaceAll(f[i - 1], ms[i].Token, ms[i].Original)
    IN  f[Len(ms)]

Restore(s, ms) ==
    IF Len(ms) = 0 THEN s
    ELSE LET less == [i \in 1..Len(ms) |-> [j \in 1..Len(ms) |-> LongerToken(ms[i], ms[j])]]
         IN  ApplyMappings(s, SortSlice(ms, less))

NewStreamRestorer(ms) ==
    LET less == [i \in 1..Len(ms) |-> [j \in 1..Len(ms) |-> LongerToken(ms[i], ms[j])]]
    IN  [mappings |-> SortSlice(ms, less), buffer |-> <<>>]

replaceMappings(ms, s) == ApplyMappings(s, ms)

\* Process with the retained suffix taken after the '[' instead of at it.
ProcessStepDropsOpen(ms, buf, chunk) ==
    LET b == buf \o chunk
        lastOpen == LastIndex(b, <<"[">>)
    IN  IF lastOpen # -1 /\ ~Contains(Slice(b, lastOpen, Len(b)), <<"]">>)
        THEN [buffer |-> Slice(b, lastOpen + 1, Len(b)),
              out |-> replaceMappings(ms, Slice(b, 0, lastOpen))]
        ELSE [buffer |-> <<>>, out |-> replaceMappings(ms, b)]

\* Process looking for the first '[' of the buffer instead of the last.
ProcessStepFirstOpen(ms, buf, chunk) ==
    LET b == buf \o chunk
        opens == {i \in 0..(Len(b) - 1) : b[i + 1] = "["}
        firstOpen == IF opens = {} THEN -1 ELSE CHOOSE i \in opens : \A j \in opens : i <= j
    IN  IF firstOpen # -1 /\ ~Contains(Slice(b, firstOpen, Len(b)), <<"]">>)
        THEN [buffer |-> Slice(b, firstOpen, Len(b)),
              out |-> replaceMappings(ms, Slice(b, 0, firstOpen))]
        ELSE [buffer |-> <<>>, out |-> replaceMappings(ms, b)]

\* Process as a function of the restorer's fields: the new buffer and the
\* returned text.
ProcessStep(ms, buf, chunk) ==
    LET b == buf \o chunk
        lastOpen == LastIndex(b, <<"[">>)
    IN  IF lastOpen # -1 /\ ~Contains(Slice(b, lastOpen, Len(b)), <<"]">>)
        THEN [buffer |-> Slice(b, lastOpen, Len(b)),
              out |-> replaceMappings(ms, Slice(b, 0, lastOpen))]
        ELSE [buffer |-> <<>>, out |-> replaceMappings(ms, b)]

\* Flush that returns the buffer's text and keeps it
FlushStepKeepsBuffer(ms, buf) == [buffer |-> buf, out |-> replaceMappings(ms, buf)]

FlushStep(ms, buf) == [buffer |-> <<>>, out |-> replaceMappings(ms, buf)]

-----------------------------------------------------------------------------
(* redactor.Counter and redactor.Redact                                    *)

Entity(start, end, typ, txt, score, detector) ==
    [Start |-> start, End |-> end, Type |-> typ, Text |-> txt, Score |-> score,
     Detector |-> detector]

Digit(d) == <<"0", "1", "2", "3", "4", "5", "6", "7", "8", "9">>[d + 1]

\* fmt's %d of a positive int
RECURSIVE Itoa(_)
Itoa(n) == IF n < 10 THEN <<Digit(n)>> ELSE Itoa(n \div 10) \o <<Digit(n % 10)>>

\* fmt.Sprintf("[%s_%d]", entityType, n)
FormatToken(entityType, n) == <<"[">> \o entityType \o <<"_">> \o Itoa(n) \o <<"]">>

\* A Counter is its two maps, each a function on the keys it holds.
NewCounter == [counts |-> <<>>, seen |-> <<>>]

MapGet(m, k, default) == IF k \in DOMAIN m THEN m[k] ELSE default

MapPut(m, k, v) == [x \in DOMAIN m \cup {k} |-> IF x = k THEN v ELSE m[x]]

\* Counter.Next without the lookup of the text seen before.
CounterNextNoReuse(c, entityType, originalText) ==
    LET n == MapGet(c.counts, entityType, 0) + 1
        tok == FormatToken(entityType, n)
    IN  [counter |-> [counts |-> MapPut(c.counts, entityType, n),
                      seen |-> MapPut(c.seen, originalText, tok)],
         tok |-> tok]

\* Counter.Next: the counter after the call and the token returned
CounterNext(c, entityType, originalText) ==
    IF originalText \in DOMAIN c.seen
    THEN [counter |-> c, tok |-> c.seen[originalText]]
    ELSE LET n == MapGet(c.counts, entityType, 0) + 1
             tok == FormatToken(entityType, n)
         IN  [counter |-> [counts |-> MapPut(c.counts, entityType, n),
                           seen |-> MapPut(c.seen, originalText, tok)],
              tok |-> tok]

\* the comparison of Redact's sort, reversed
StartGreater(a, b) == a.Start > b.Start

StartLess(a, b) == a.Start < b.Start

\* First pass of Redact: the tagged list, tokens assigned in forward order.
AssignTokens(sorted) ==
    LET f[i \in 0..Len(sorted)] ==
            IF i = 0 THEN [counter |-> NewCounter, tags |-> <<>>]
            ELSE LET r == CounterNext(f[i - 1].counter, sorted[i].Type, sorted[i].Text)
                 IN  [counter |-> r.counter,
                      tags |-> Append(f[i - 1].tags, [ent |-> sorted[i], token |-> r.tok])]
    IN  f[Len(sorted)].tags

\* buf[:Start] + token + buf[End:]; a slice bound outside the buffer panics.
SpliceOk(buf, t) ==
    /\ 0 <= t.ent.Start /\ t.ent.Start <= Len(buf)
    /\ 0 <= t.ent.End /\ t.ent.End <= Len(buf)

Splice(buf, t) ==
    Slice(buf, 0, t.ent.Start) \o t.token \o Slice(buf, t.ent.End, Len(buf))

\* The second pass run from the first tag to the last.
ReplaceForward(txt, tags) ==
    LET n == Len(tags)
        f[k \in 0..n] ==
            IF k = 0 THEN [buf |-> txt, mappings |-> <<>>, panic |-> FALSE]
            ELSE LET prev == f[k - 1]
                     t == tags[k]
                 IN  IF prev.panic \/ ~SpliceOk(prev.buf, t)
                     THEN [prev EXCEPT !.panic = TRUE]
                     ELSE [buf |-> Splice(prev.buf, t),
                           mappings |-> Append(prev.mappings,
                                               Mapping(t.token, t.ent.Text, t.ent.Type)),
                           panic |-> FALSE]
    IN  f[n]

\* Second pass of Redact, from the last tag to the first: the buffer, the
\* mappings appended so far, and whether a splice panicked.
ReplaceBackward(txt, tags) ==
    LET n == Len(tags)
        f[k \in 0..n] ==
            IF k = 0 THEN [buf |-> txt, mappings |-> <<>>, panic |-> FALSE]
            ELSE LET prev == f[k - 1]
                     t == tags[n - k + 1]
                 IN  IF prev.panic \/ ~SpliceOk(prev.buf, t)
                     THEN [prev EXCEPT !.panic = TRUE]
                     ELSE [buf |-> Splice(prev.buf, t),
                           mappings |-> Append(prev.mappings,
                                               Mapping(t.token, t.ent.Text, t.ent.Type)),
                           panic |-> FALSE]
    IN  f[n]

\* the seen-map loop: the first mapping of each token is kept
DedupMappings(ms) ==
    LET keep == {i \in 1..Len(ms) : \A j \in 1..(i - 1) : ms[j].Token # ms[i].Token}
        f[i \in 0..Len(ms)] ==
            IF i = 0 THEN <<>>
            ELSE IF i \in keep THEN Append(f[i - 1], ms[i]) ELSE f[i - 1]
    IN  f[Len(ms)]

\* Redact whose empty case returns an empty sanitized text
RedactEmptyCaseDropsText(txt, ents) ==
    IF Len(ents) = 0
    THEN [OriginalText |-> txt, SanitizedText |-> <<>>, Entities |-> ents,
          Mappings |-> <<>>, tags |-> <<>>, panic |-> FALSE]
    ELSE LET less == [i \in 1..Len(ents) |->
                         [j \in 1..Len(ents) |-> StartLess(ents[i], ents[j])]]
             tags == AssignTokens(SortSlice(ents, less))
             r == ReplaceBackward(txt, tags)
         IN  [OriginalText |-> txt, SanitizedText |-> r.buf, Entities |-> ents,
              Mappings |-> DedupMappings(r.mappings), tags |-> tags, panic |-> r.panic]

\* Redact.  tags is the function's local tagged list, kept for the properties.
Redact(txt, ents) ==
    IF Len(ents) = 0
    THEN [OriginalText |-> txt, SanitizedText |-> txt, Entities |-> ents,
          Mappings |-> <<>>, tags |-> <<>>, panic |-> FALSE]
    ELSE LET less == [i \in 1..Len(ents) |->
                         [j \in 1..Len(ents) |-> StartLess(ents[i], ents[j])]]
             sorted == SortSlice(ents, less)
             tags == AssignTokens(sorted)
             r == ReplaceBackward(txt, tags)
         IN  [OriginalText |-> txt, SanitizedText |-> r.buf, Entities |-> ents,
              Mappings |-> DedupMappings(r.mappings), tags |-> tags, panic |-> r.panic]

-----------------------------------------------------------------------------
(* scanner.RegexScanner and scanner.CompositeScanner                       *)

\* U+00FC in its composed form (2 bytes) and as u + U+0308 (3 bytes)
UmlautNFC == <<"xC3", "xBC">>
UmlautNFD == <<"u", "xCC", "x88">>

\* norm.NFC.String on the texts of the model, whose only decomposed sequence
\* is u + U+0308: each is composed, every other byte is kept.
NFC(s) == ReplaceAll(s, UmlautNFD, UmlautNFC)

\* A compiled regexp of the model is a literal, optionally ending in one
\* capture group: pre(grp).  groups is its number of capture groups.
Regexp(pre, grp, groups) == [pre |-> pre, grp |-> grp, groups |-> groups]

\* re.FindAllStringSubmatchIndex(text, -1): the leftmost non-overlapping
\* matches, each as loc = <<start, end>> or <<start, end, grpStart, grpEnd>>
\* (loc[k] of the code is Loc(loc, k)).
RECURSIVE FindFrom(_, _, _)
FindFrom(re, txt, i) ==
    LET lit == re.pre \o re.grp
    IN  IF i + Len(lit) > Len(txt) THEN <<>>
        ELSE IF HasPrefixAt(txt, i, lit)
             THEN <<IF re.groups = 0
                    THEN <<i, i + Len(lit)>>
                    ELSE <<i, i + Len(lit), i + Len(re.pre), i + Len(lit)>> >>
                  \o FindFrom(re, txt, i + Len(lit))
             ELSE FindFrom(re, txt, i + 1)

FindAllStringSubmatchIndex(re, txt) == FindFrom(re, txt, 0)

Loc(loc, k) == loc[k + 1]

\* rs.validate(matched) for the two validators of the model: one accepts
\* every match, one rejects every match
ValidateFn(v, matched) == v = "accept"

\* the negation of "rs.validate != nil && !rs.validate(matched)"
Validates(rs, matched) == ~(rs.validate # "nil" /\ ~ValidateFn(rs.validate, matched))

\* the elements of s whose index keep marks, in order
SelectSeq2(s, keep) ==
    LET f[i \in 0..Len(s)] ==
            IF i = 0 THEN <<>> ELSE IF keep[i] THEN Append(f[i - 1], s[i]) ELSE f[i - 1]
    IN  f[Len(s)]

\* RegexScanner.Scan with extractGroup = 0
ScanWholeMatch(rs, txt) ==
    LET indices == FindAllStringSubmatchIndex(rs.re, txt)
        ents == [k \in 1..Len(indices) |->
                    Entity(Loc(indices[k], 0), Loc(indices[k], 1), rs.entityType,
                           Slice(txt, Loc(indices[k], 0), Loc(indices[k], 1)),
                           rs.score, "regex")]
    IN  SelectSeq2(ents, [k \in 1..Len(ents) |-> Validates(rs, ents[k].Text)])

\* RegexScanner.scanWithGroups
scanWithGroups(rs, txt) ==
    LET matches == FindAllStringSubmatchIndex(rs.re, txt)
        g == rs.extractGroup
        usable == {k \in 1..Len(matches) :
                      ~(g * 2 + 1 >= Len(matches[k]) \/ Loc(matches[k], g * 2) < 0)}
        ent(k) == Entity(Loc(matches[k], g * 2), Loc(matches[k], g * 2 + 1), rs.entityType,
                         Slice(txt, Loc(matches[k], g * 2), Loc(matches[k], g * 2 + 1)),
                         rs.score, "regex")
        f[k \in 0..Len(matches)] ==
            IF k = 0 THEN <<>>
            ELSE IF k \in usable /\ Validates(rs, ent(k).Text)
                 THEN Append(f[k - 1], ent(k))
                 ELSE f[k - 1]
    IN  f[Len(matches)]

RegexScan(rs, txt) ==
    IF rs.extractGroup > 0 THEN scanWithGroups(rs, txt) ELSE ScanWholeMatch(rs, txt)

\* Scanner.Scan: a RegexScanner, or another implementation of the interface,
\* of which the model keeps only the list it returns.
ScannerScan(sc, txt) == IF sc.kind = "regex" THEN RegexScan(sc, txt) ELSE sc.returns

\* the loop "for _, s := range cs.scanners { all = append(all, s.Scan(text)...) }"
CollectAll(scs, txt) ==
    LET f[i \in 0..Len(scs)] ==
            IF i = 0 THEN <<>> ELSE f[i - 1] \o ScannerScan(scs[i], txt)
    IN  f[Len(scs)]

\* the comparison of Scan's sort with the shorter match first
MergeLessShorterFirst(a, b) ==
    IF a.Start # b.Start THEN a.Start < b.Start
    ELSE (a.End - a.Start) < (b.End - b.Start)

\* the comparison with the lower score first among equal starts
MergeLessLowScoreFirst(a, b) ==
    IF a.Start # b.Start THEN a.Start < b.Start
    ELSE IF a.Score # b.Score THEN a.Score < b.Score
    ELSE (a.End - a.Start) > (b.End - b.Start)

\* the comparison by start ascending, score descending, length descending
MergeLessByScore(a, b) ==
    IF a.Start # b.Start THEN a.Start < b.Start
    ELSE IF a.Score # b.Score THEN a.Score > b.Score
    ELSE (a.End - a.Start) > (b.End - b.Start)

\* the comparison of Scan's sort: start ascending, then longer first
MergeLess(a, b) ==
    IF a.Start # b.Start THEN a.Start < b.Start
    ELSE (a.End - a.Start) > (b.End - b.Start)

\* the sweep skipping only a candidate that ends inside the span kept last
DedupContainedOnly(all) ==
    LET f[i \in 0..Len(all)] ==
            IF i = 0 THEN [deduped |-> <<>>, lastEnd |-> -1]
            ELSE LET prev == f[i - 1]
                     e == all[i]
                 IN  IF e.End <= prev.lastEnd THEN prev
                     ELSE [deduped |-> Append(prev.deduped, e),
                           lastEnd |-> IF e.End > prev.lastEnd THEN e.End ELSE prev.lastEnd]
    IN  f[Len(all)].deduped

\* the sweep skipping also a candidate that starts where the last one ended
DedupSkipsAdjacent(all) ==
    LET f[i \in 0..Len(all)] ==
            IF i = 0 THEN [deduped |-> <<>>, lastEnd |-> -1]
            ELSE LET prev == f[i - 1]
                     e == all[i]
                 IN  IF e.Start <= prev.lastEnd THEN prev
                     ELSE [deduped |-> Append(prev.deduped, e),
                           lastEnd |-> IF e.End > prev.lastEnd THEN e.End ELSE prev.lastEnd]
    IN  f[Len(all)].deduped

\* the sweep with lastEnd over the sorted list
Dedup(all) ==
    LET f[i \in 0..Len(all)] ==
            IF i = 0 THEN [deduped |-> <<>>, lastEnd |-> -1]
            ELSE LET prev == f[i - 1]
                     e == all[i]
                 IN  IF e.Start < prev.lastEnd THEN prev
                     ELSE [deduped |-> Append(prev.deduped, e),
                           lastEnd |-> IF e.End > prev.lastEnd THEN e.End ELSE prev.lastEnd]
    IN  f[Len(all)].deduped

\* the allowlist test looking at the first pattern only
AllowedFirstOnly(al, e) == Len(al) > 0 /\ Contains(e.Text, al[1])

\* al.MatchString(e.Text) for some pattern al of the allowlist; a pattern is
\* a literal, matched anywhere in the text
Allowed(al, e) == \E k \in 1..Len(al) : Contains(e.Text, al[k])

AllowlistFilter(al, deduped) ==
    IF Len(al) > 0
    THEN SelectSeq2(deduped, [k \in 1..Len(deduped) |-> ~Allowed(al, deduped[k])])
    ELSE deduped

\* Scan with the scanners run on the text as passed, not on its NFC form
ScanRawText(scs, al, txt) ==
    LET normalized == NFC(txt)
        all == CollectAll(scs, txt)
        less == [i \in 1..Len(all) |-> [j \in 1..Len(all) |-> MergeLess(all[i], all[j])]]
    IN  {[text |-> normalized, all |-> all, sorted |-> sorted, deduped |-> Dedup(sorted),
          out |-> AllowlistFilter(al, Dedup(sorted))] :
            sorted \in SortSliceOutcomes(all, less)}

\* CompositeScanner.Scan with its slice sorted by insertion sort alone, the
\* one result of a call with at most 6 candidates.  Besides the returned list
\* (out) the record keeps the function's locals for the properties.
Scan(scs, al, txt) ==
    LET normalized == NFC(txt)
        all == CollectAll(scs, normalized)
        less == [i \in 1..Len(all) |-> [j \in 1..Len(all) |-> MergeLess(all[i], all[j])]]
        sorted == SortSlice(all, less)
        deduped == Dedup(sorted)
    IN  [text |-> normalized, all |-> all, sorted |-> sorted, deduped |-> deduped,
         out |-> AllowlistFilter(al, deduped)]

\* Scan with the allowlist applied to the sorted list, before the sweep.
ScanAllowlistFirst(scs, al, txt) ==
    LET normalized == NFC(txt)
        all == CollectAll(scs, normalized)
        less == [i \in 1..Len(all) |-> [j \in 1..Len(all) |-> MergeLess(all[i], all[j])]]
    IN  {[text |-> normalized, all |-> all, sorted |-> sorted, deduped |-> Dedup(sorted),
          out |-> Dedup(AllowlistFilter(al, sorted))] :
            sorted \in SortSliceOutcomes(all, less)}

\* CompositeScanner.Scan with every result its sort can leave: the records
\* Scan can return for one call.
ScanOutcomes(scs, al, txt) ==
    LET normalized == NFC(txt)
        all == CollectAll(scs, normalized)
        less == [i \in 1..Len(all) |-> [j \in 1..Len(all) |-> MergeLess(all[i], all[j])]]
    IN  {[text |-> normalized, all |-> all, sorted |-> sorted, deduped |-> Dedup(sorted),
          out |-> AllowlistFilter(al, Dedup(sorted))] :
            sorted \in SortSliceOutcomes(all, less)}

-----------------------------------------------------------------------------
(* The inputs of the streaming restorer.                                   *)

TokP1 == <<"[", "P", "_", "1", "]">>
TokP2 == <<"[", "P", "_", "2", "]">>

\* Pieces a streamed text is assembled from: whole tokens, stray brackets,
\* plain text and a token's tail.
StreamPieces == {TokP1, TokP2, <<"[">>, <<"]">>, <<"a">>, <<"P", "_", "2", "]">>}

RECURSIVE Flatten(_)
Flatten(ps) == IF ps = <<>> THEN <<>> ELSE Head(ps) \o Flatten(Tail(ps))

SeqsUpTo(S, n) == UNION {[1..k -> S] : k \in 0..n}

StreamTexts == {Flatten(ps) : ps \in SeqsUpTo(StreamPieces, MaxPieces)}

StreamOriginals == {<<"a">>, <<"[">>}

StreamMappings == {Mapping(t, o, <<"P">>) : t \in {TokP1, TokP2}, o \in StreamOriginals}

\* A mapping table pairs each token with one original: no token occurs twice.
StreamTables ==
    {t \in SeqsUpTo(StreamMappings, MaxMappings) :
        \A i, j \in 1..Len(t) : i # j => t[i].Token # t[j].Token}

-----------------------------------------------------------------------------
(* Idle values of the components a specification does not exercise.        *)

StreamIdle ==
    /\ srMappings = <<>> /\ srBuffer = <<>> /\ input = <<>> /\ table = <<>>
    /\ pos = 0 /\ emitted = <<>> /\ flushes = 0 /\ misuse = FALSE
    /\ procCalls = <<>>

RedactIdle ==
    /\ text = <<>> /\ entities = <<>> /\ result = NoResult /\ restored = NoResult
    /\ redactCalls = <<>>

ScanIdle ==
    /\ scanners = <<>> /\ allowlist = <<>> /\ scanText = <<>> /\ scanOut = NoResult

-----------------------------------------------------------------------------
(* The streaming session: NewStreamRestorer(table), then Process on        *)
(* consecutive chunks of input and Flush, in whatever order the caller     *)
(* makes the calls.                                                        *)

InitStream ==
    /\ phase = "stream"
    /\ input \in StreamTexts
    /\ table \in StreamTables
    /\ srMappings = NewStreamRestorer(table).mappings
    /\ srBuffer = NewStreamRestorer(table).buffer
    /\ pos = 0 /\ emitted = <<>> /\ flushes = 0 /\ misuse = FALSE
    /\ procCalls = <<>>
    /\ RedactIdle /\ ScanIdle

Process(n) ==
    LET chunk == Slice(input, pos, pos + n)
        r == ProcessStep(srMappings, srBuffer, chunk)
    IN  /\ pos + n <= Len(input)
        /\ srBuffer' = r.buffer
        /\ emitted' = emitted \o r.out
        /\ pos' = pos + n
        /\ misuse' = (misuse \/ flushes > 0)
        /\ UNCHANGED <<phase, srMappings, input, table, flushes, procCalls>>
        /\ UNCHANGED <<redactVars, scanVars>>

Flush ==
    LET r == FlushStep(srMappings, srBuffer)
    IN  /\ flushes < MaxFlushes
        /\ srBuffer' = r.buffer
        /\ emitted' = emitted \o r.out
        /\ flushes' = flushes + 1
        /\ UNCHANGED <<phase, srMappings, input, table, pos, misuse, procCalls>>
        /\ UNCHANGED <<redactVars, scanVars>>

NextStream ==
    \/ \E n \in 0..Len(input) : Process(n)
    \/ Flush

SpecStream == InitStream /\ [][NextStream]_vars

-----------------------------------------------------------------------------
(* One Restore call on a text and a mapping table whose tokens differ in   *)
(* length ([P_1], [P_2], [P_10]).                                          *)

TokP10 == <<"[", "P", "_", "1", "0", "]">>

RestorePieces == {TokP1, TokP2, TokP10, <<"P", "_", "2", "]">>, <<"a">>}

RestoreTexts == {Flatten(ps) : ps \in SeqsUpTo(RestorePieces, MaxPieces)}

RestoreMappings ==
    {Mapping(t, o, <<"P">>) : t \in {TokP1, TokP2, TokP10}, o \in StreamOriginals}

RestoreTables ==
    {t \in SeqsUpTo(RestoreMappings, MaxMappings) :
        \A i, j \in 1..Len(t) : i # j => t[i].Token # t[j].Token}

InitRestore ==
    /\ phase = "restore"
    /\ input \in RestoreTexts
    /\ table \in RestoreTables
    /\ srMappings = <<>> /\ srBuffer = <<>>
    /\ pos = 0 /\ emitted = <<>> /\ flushes = 0 /\ misuse = FALSE
    /\ procCalls = <<>>
    /\ RedactIdle /\ ScanIdle

RestoreCall ==
    /\ phase = "restore"
    /\ restored' = Restore(input, table)
    /\ phase' = "returned"
    /\ UNCHANGED <<text, entities, result, redactCalls>>
    /\ UNCHANGED <<streamVars, scanVars>>

NextRestore == RestoreCall

SpecRestore == InitRestore /\ [][NextRestore]_vars

-----------------------------------------------------------------------------
(* One Redact call on a text and a candidate list, then Restore on its     *)
(* sanitized text and mappings.                                            *)

TypeP == <<"P">>
TypeQ == <<"Q">>
Types == {TypeP, TypeQ}

\* Pieces a text is assembled from: plain bytes and a literal "[P_1]".
TextPieces == {<<"a">>, <<"b">>, TokP1}

\* room for a literal token and one more byte
MaxTextLen == Len(TokP1) + 1

Texts ==
    {t \in {Flatten(ps) : ps \in SeqsUpTo(TextPieces, MaxTextPieces)} : Len(t) <= MaxTextLen}

\* The candidates one can derive from txt: an in-bounds non-empty span, its
\* text, any type.
CandidatesOf(txt) ==
    {Entity(se[1], se[2], ty, Slice(txt, se[1], se[2]), 1, "regex") :
        se \in {x \in (0..Len(txt)) \X (0..Len(txt)) : x[1] < x[2]}, ty \in Types}

Overlap(a, b) == a.Start < b.End /\ b.Start < a.End

NonOverlapping(ents) ==
    \A i, j \in 1..Len(ents) : i # j => ~Overlap(ents[i], ents[j])

\* Candidate lists as the merge engine hands them out, passed in any order.
RECURSIVE NonOverlappingLists(_, _)
NonOverlappingLists(C, n) ==
    IF n = 0 THEN {<<>>}
    ELSE LET shorter == NonOverlappingLists(C, n - 1)
         IN  shorter \cup {Append(p[1], p[2]) :
                              p \in {q \in shorter \X C : NonOverlapping(Append(q[1], q[2]))}}

CandidateLists(txt) == NonOverlappingLists(CandidatesOf(txt), MaxEnts)

InitRedact ==
    /\ phase = "input"
    /\ text \in Texts
    /\ entities \in CandidateLists(text)
    /\ result = NoResult /\ restored = NoResult
    /\ redactCalls = <<>>
    /\ StreamIdle /\ ScanIdle

DoRedact ==
    /\ phase = "input"
    /\ result' = Redact(text, entities)
    /\ phase' = "redacted"
    /\ UNCHANGED <<text, entities, restored, redactCalls>>
    /\ UNCHANGED <<streamVars, scanVars>>

DoRestore ==
    /\ phase = "redacted"
    /\ ~result.panic
    /\ restored' = Restore(result.SanitizedText, result.Mappings)
    /\ phase' = "restored"
    /\ UNCHANGED <<text, entities, result, redactCalls>>
    /\ UNCHANGED <<streamVars, scanVars>>

NextRedact == DoRedact \/ DoRestore

SpecRedact == InitRedact /\ [][NextRedact]_vars

-----------------------------------------------------------------------------
(* One Redact call on candidates that are in bounds and may overlap, nest  *)
(* or be empty.                                                            *)

OverlapTexts == {[i \in 1..n |-> "a"] : n \in 0..MaxOverlapLen}

InBoundsCandidates(txt) ==
    {Entity(se[1], se[2], TypeP, Slice(txt, se[1], se[2]), 1, "regex") :
        se \in {x \in (0..Len(txt)) \X (0..Len(txt)) : x[1] <= x[2]}}

InitOverlap ==
    /\ phase = "input"
    /\ text \in OverlapTexts
    /\ entities \in SeqsUpTo(InBoundsCandidates(text), MaxOverlapEnts)
    /\ result = NoResult /\ restored = NoResult
    /\ redactCalls = <<>>
    /\ StreamIdle /\ ScanIdle

NextOverlap == DoRedact

SpecOverlap == InitOverlap /\ [][NextOverlap]_vars

-----------------------------------------------------------------------------
(* Goroutines calling Redact, each call running statement by statement:    *)
(* the copy and sort with "counter := NewCounter()", one iteration of the  *)
(* tagging loop at a time, then the splice, the dedup and the return.      *)
(* Redact reads its arguments and its own locals only.                     *)

ConcTexts == {<<"a", "b">>, <<"a", "a">>}

ConcArgs ==
    UNION {{[text |-> txt, entities |-> l] :
               l \in {m \in CandidateLists(txt) : \A i \in 1..Len(m) : m[i].Type = TypeP}} :
           txt \in ConcTexts}

RedactCall(args) ==
    [text |-> args.text, entities |-> args.entities, pc |-> "start",
     sorted |-> <<>>, counter |-> NewCounter, tags |-> <<>>, result |-> NoResult]

\* a counter that all calls would share: the one of the first goroutine
SharedCounter(calls, g) == calls[1].counter

\* the local variable counter of the call of goroutine g
CallCounter(calls, g) == calls[g].counter

InitConc ==
    /\ phase = "input"
    /\ redactCalls \in [Goroutines -> {RedactCall(a) : a \in ConcArgs}]
    /\ text = <<>> /\ entities = <<>> /\ result = NoResult /\ restored = NoResult
    /\ StreamIdle /\ ScanIdle

\* Redact with no entities returns at once
RedactEmpty(g) ==
    LET c == redactCalls[g]
    IN  /\ c.pc = "start" /\ Len(c.entities) = 0
        /\ redactCalls' = [redactCalls EXCEPT ![g].pc = "done",
                                              ![g].result = Redact(c.text, c.entities)]
        /\ UNCHANGED <<phase, text, entities, result, restored>>
        /\ UNCHANGED <<streamVars, scanVars>>

\* the copy, the sort and "counter := NewCounter()"
RedactSort(g) ==
    LET c == redactCalls[g]
        less == [i \in 1..Len(c.entities) |->
                    [j \in 1..Len(c.entities) |-> StartLess(c.entities[i], c.entities[j])]]
    IN  /\ c.pc = "start" /\ Len(c.entities) > 0
        /\ redactCalls' = [redactCalls EXCEPT ![g].pc = "tag",
                                              ![g].sorted = SortSlice(c.entities, less),
                                              ![g].counter = NewCounter]
        /\ UNCHANGED <<phase, text, entities, result, restored>>
        /\ UNCHANGED <<streamVars, scanVars>>

\* one iteration of "tags[i] = tagged{ent: ent, token: counter.Next(...)}"
RedactTag(g) ==
    LET c == redactCalls[g]
        ent == c.sorted[Len(c.tags) + 1]
        r == CounterNext(CallCounter(redactCalls, g), ent.Type, ent.Text)
    IN  /\ c.pc = "tag" /\ Len(c.tags) < Len(c.sorted)
        /\ redactCalls' = [redactCalls EXCEPT
                              ![g].counter = r.counter,
                              ![g].tags = Append(c.tags, [ent |-> ent, token |-> r.tok])]
        /\ UNCHANGED <<phase, text, entities, result, restored>>
        /\ UNCHANGED <<streamVars, scanVars>>

\* the second pass, the dedup and the return
RedactReturn(g) ==
    LET c == redactCalls[g]
        r == ReplaceBackward(c.text, c.tags)
    IN  /\ c.pc = "tag" /\ Len(c.tags) = Len(c.sorted)
        /\ redactCalls' = [redactCalls EXCEPT
                              ![g].pc = "done",
                              ![g].result =
                                  [OriginalText |-> c.text, SanitizedText |-> r.buf,
                                   Entities |-> c.entities,
                                   Mappings |-> DedupMappings(r.mappings),
                                   tags |-> c.tags, panic |-> r.panic]]
        /\ UNCHANGED <<phase, text, entities, result, restored>>
        /\ UNCHANGED <<streamVars, scanVars>>

NextConc ==
    \E g \in Goroutines : RedactEmpty(g) \/ RedactSort(g) \/ RedactTag(g) \/ RedactReturn(g)

SpecConc == InitConc /\ [][NextConc]_vars

-----------------------------------------------------------------------------
(* Goroutines calling Process and Flush on one StreamRestorer.  Neither    *)
(* method takes a lock, so the reads and writes of sr.buffer of one call   *)
(* interleave with the other calls'.  A call is modelled statement by      *)
(* statement: "sr.buffer += chunk" reads the field and then writes it, the *)
(* rest of Process runs on what the field then holds; Flush reads the      *)
(* field for replaceMappings and then clears it.                           *)

RaceChunks == {<<"a">>, <<"b">>, <<"[">>}

ProcCall(method, chunk) ==
    [method |-> method, chunk |-> chunk, pc |-> "load", tmp |-> <<>>]

ProcCallsOffered ==
    {ProcCall("Process", c) : c \in RaceChunks} \cup {ProcCall("Flush", <<>>)}

InitRace ==
    /\ phase = "stream"
    /\ table = <<>>
    /\ srMappings = NewStreamRestorer(table).mappings
    /\ srBuffer = NewStreamRestorer(table).buffer
    /\ input = <<>> /\ pos = 0 /\ emitted = <<>> /\ flushes = 0 /\ misuse = FALSE
    /\ procCalls \in [Goroutines -> ProcCallsOffered]
    /\ RedactIdle /\ ScanIdle

\* the read of sr.buffer in "sr.buffer += chunk"
ProcessLoad(g) ==
    /\ procCalls[g].method = "Process" /\ procCalls[g].pc = "load"
    /\ procCalls' = [procCalls EXCEPT ![g].tmp = srBuffer, ![g].pc = "store"]
    /\ UNCHANGED <<phase, srMappings, srBuffer, input, table, pos, emitted, flushes, misuse>>
    /\ UNCHANGED <<redactVars, scanVars>>

\* the write of sr.buffer in "sr.buffer += chunk"
ProcessStore(g) ==
    /\ procCalls[g].method = "Process" /\ procCalls[g].pc = "store"
    /\ srBuffer' = procCalls[g].tmp \o procCalls[g].chunk
    /\ procCalls' = [procCalls EXCEPT ![g].pc = "rest"]
    /\ UNCHANGED <<phase, srMappings, input, table, pos, emitted, flushes, misuse>>
    /\ UNCHANGED <<redactVars, scanVars>>

\* the statements of Process after "sr.buffer += chunk", up to its return
ProcessRest(g) ==
    LET r == ProcessStep(srMappings, srBuffer, <<>>)
    IN  /\ procCalls[g].method = "Process" /\ procCalls[g].pc = "rest"
        /\ srBuffer' = r.buffer
        /\ emitted' = emitted \o r.out
        /\ procCalls' = [procCalls EXCEPT ![g].pc = "done"]
        /\ UNCHANGED <<phase, srMappings, input, table, pos, flushes, misuse>>
        /\ UNCHANGED <<redactVars, scanVars>>

\* "out := sr.replaceMappings(sr.buffer)" of Flush
FlushLoad(g) ==
    /\ procCalls[g].method = "Flush" /\ procCalls[g].pc = "load"
    /\ procCalls' = [procCalls EXCEPT ![g].tmp = replaceMappings(srMappings, srBuffer),
                                      ![g].pc = "clear"]
    /\ UNCHANGED <<phase, srMappings, srBuffer, input, table, pos, emitted, flushes, misuse>>
    /\ UNCHANGED <<redactVars, scanVars>>

\* "sr.buffer = \"\"; return out" of Flush
FlushClear(g) ==
    /\ procCalls[g].method = "Flush" /\ procCalls[g].pc = "clear"
    /\ srBuffer' = <<>>
    /\ emitted' = emitted \o procCalls[g].tmp
    /\ flushes' = flushes + 1
    /\ procCalls' = [procCalls EXCEPT ![g].pc = "done"]
    /\ UNCHANGED <<phase, srMappings, input, table, pos, misuse>>
    /\ UNCHANGED <<redactVars, scanVars>>

NextRace ==
    \E g \in Goroutines :
        ProcessLoad(g) \/ ProcessStore(g) \/ ProcessRest(g) \/ FlushLoad(g) \/ FlushClear(g)

SpecRace == InitRace /\ [][NextRace]_vars

-----------------------------------------------------------------------------
(* The command line's run: Scan on a text with regex scanners and an       *)
(* allowlist, then Redact on the same text with the entities found, then   *)
(* Restore.                                                                *)

ScanPieces == {<<"a">>, UmlautNFC, UmlautNFD}

ScanTexts == {Flatten(ps) : ps \in SeqsUpTo(ScanPieces, MaxScanPieces)}

RegexScanner(re, entityType, score, validate, extractGroup) ==
    [kind |-> "regex", re |-> re, entityType |-> entityType, score |-> score,
     validate |-> validate, extractGroup |-> extractGroup]

ReA == Regexp(<<"a">>, <<>>, 0)                 \* `a`
ReUmlaut == Regexp(UmlautNFC, <<>>, 0)          \* `ü`
ReUmlautA == Regexp(UmlautNFC, <<"a">>, 1)      \* `ü(a)`

\* The scanners of the model: whole-match and capture-group scanners, with
\* and without a validator, one of them asking for a group its regexp lacks.
RegexScanners ==
    {RegexScanner(ReA, TypeP, 1, "nil", 0),
     RegexScanner(ReA, TypeP, 1, "reject", 0),
     RegexScanner(ReUmlaut, TypeQ, 1, "accept", 0),
     RegexScanner(ReUmlautA, TypeP, 1, "nil", 0),
     RegexScanner(ReUmlautA, TypeQ, 1, "nil", 1),
     RegexScanner(ReUmlautA, TypeQ, 1, "reject", 1),
     RegexScanner(ReUmlautA, TypeQ, 1, "nil", 2)}

\* allowlist patterns: `ü` and `üa`
AllowPatterns == {UmlautNFC, UmlautNFC \o <<"a">>}

InitScan ==
    /\ phase = "input"
    /\ scanText \in ScanTexts
    /\ scanners \in SeqsUpTo(RegexScanners, MaxScanners)
    /\ allowlist \in SeqsUpTo(AllowPatterns, MaxAllow)
    /\ scanOut = NoResult
    /\ StreamIdle /\ RedactIdle

DoScan ==
    /\ phase = "input"
    /\ scanOut' \in ScanOutcomes(scanners, allowlist, scanText)
    /\ phase' = "scanned"
    /\ UNCHANGED <<scanners, allowlist, scanText>>
    /\ UNCHANGED <<streamVars, redactVars>>

\* run: "entities := s.Scan(text)" is followed by "redactor.Redact(text, entities)"
RunRedact ==
    /\ phase = "scanned"
    /\ text' = scanText
    /\ entities' = scanOut.out
    /\ result' = Redact(scanText, scanOut.out)
    /\ phase' = "redacted"
    /\ UNCHANGED <<restored, redactCalls>>
    /\ UNCHANGED <<streamVars, scanVars>>

NextScan == DoScan \/ RunRedact \/ DoRestore

SpecScan == InitScan /\ [][NextScan]_vars

-----------------------------------------------------------------------------
(* Scan over a detector that is not a regex scanner: it returns a list of  *)
(* candidates of the normalized text, of its own choosing.                 *)

Scores == {1, 2}

MergeTexts == {[i \in 1..n |-> "a"] : n \in 0..MaxMergeLen}

SpansOf(txt) == {x \in (0..Len(txt)) \X (0..Len(txt)) : x[1] < x[2]}

Detector(returns) == [kind |-> "detector", returns |-> returns]

\* A detector reports spans of the text, all with its own type and score.
Detectors(txt) ==
    {Detector([k \in 1..Len(sp) |->
                  Entity(sp[k][1], sp[k][2], ty, Slice(txt, sp[k][1], sp[k][2]), sc, "ner")]) :
        sp \in SeqsUpTo(SpansOf(txt), MaxReturned), ty \in Types, sc \in Scores}

MergeAllowPatterns == {<<"a", "a">>}

InitMerge ==
    /\ phase = "input"
    /\ scanText \in MergeTexts
    /\ scanners \in {<<d>> : d \in Detectors(NFC(scanText))}
    /\ allowlist \in SeqsUpTo(MergeAllowPatterns, MaxAllow)
    /\ scanOut = NoResult
    /\ StreamIdle /\ RedactIdle

NextMerge == DoScan

SpecMerge == InitMerge /\ [][NextMerge]_vars

-----------------------------------------------------------------------------
(* Scan over a detector that gives each candidate a score of its own.      *)

ScoreTexts == {[i \in 1..n |-> "a"] : n \in 0..MaxScoreLen}

ScoredCandidates(txt) ==
    {Entity(se[1], se[2], TypeP, Slice(txt, se[1], se[2]), sc, "ner") :
        se \in SpansOf(txt), sc \in Scores}

ScoreDetectors(txt) ==
    {Detector(returns) : returns \in SeqsUpTo(ScoredCandidates(txt), MaxScoreReturned)}

InitScore ==
    /\ phase = "input"
    /\ scanText \in ScoreTexts
    /\ scanners \in {<<d>> : d \in ScoreDetectors(NFC(scanText))}
    /\ allowlist = <<>>
    /\ scanOut = NoResult
    /\ StreamIdle /\ RedactIdle

NextScore == DoScan

SpecScore == InitScore /\ [][NextScore]_vars

-----------------------------------------------------------------------------
(* Scan of texts that spell the umlaut composed or decomposed, by one      *)
(* regex scanner or by one followed by the scanner of `a`.                 *)

NormTexts == {Flatten(ps) : ps \in SeqsUpTo(ScanPieces, MaxNormPieces)}

NormScanners ==
    {<<>>} \cup {<<s>> : s \in RegexScanners}
           \cup {<<s, RegexScanner(ReA, TypeP, 1, "nil", 0)>> : s \in RegexScanners}

InitNorm ==
    /\ phase = "input"
    /\ scanText \in NormTexts
    /\ scanners \in NormScanners
    /\ allowlist \in {<<>>} \cup {<<p>> : p \in AllowPatterns}
    /\ scanOut = NoResult
    /\ StreamIdle /\ RedactIdle

NextNorm == DoScan

SpecNorm == InitNorm /\ [][NextNorm]_vars

-----------------------------------------------------------------------------
(* Scan over three scanners that can report the same span: two report a    *)
(* run of the text's bytes, the third one candidate at most.               *)

OrderTexts == {[i \in 1..n |-> "a"] : n \in 0..MaxOrderLen}

ScannerName(k) == <<"s1", "s2", "s3">>[k]

\* Scanner k reports every byte of txt[from:to] as a candidate of its own
\* and names itself in the Detector field.
RunDetector(k, txt, from, to) ==
    Detector([i \in 1..(to - from) |->
                 Entity(from + i - 1, from + i, TypeP,
                        Slice(txt, from + i - 1, from + i), 1, ScannerName(k))])

RunDetectors(k, txt) ==
    {RunDetector(k, txt, from, to) : from \in 0..Len(txt), to \in 0..Len(txt)}

\* a scanner that reports one candidate at most
OneDetectors(k, txt) == {d \in RunDetectors(k, txt) : Len(d.returns) <= 1}

InitOrder ==
    /\ phase = "input"
    /\ scanText \in OrderTexts
    /\ scanners \in {<<d1, d2, d3>> : d1 \in RunDetectors(1, NFC(scanText)),
                                      d2 \in RunDetectors(2, NFC(scanText)),
                                      d3 \in OneDetectors(3, NFC(scanText))}
    /\ allowlist = <<>>
    /\ scanOut = NoResult
    /\ StreamIdle /\ RedactIdle

NextOrder == DoScan

SpecOrder == InitOrder /\ [][NextOrder]_vars

-----------------------------------------------------------------------------
(* Scan over a detector that may misreport: the Scanner interface lets it  *)
(* return any offsets and any text (an NER detector converts character     *)
(* offsets to byte offsets itself).                                        *)

RawTexts == {[i \in 1..n |-> "a"] : n \in 0..MaxRawLen}

WrongText == <<"b">>

\* Offsets up to one past the end of the text, in any order, with the text
\* of the span where there is one, or a text that is not in the input.
RawCandidates(txt) ==
    {Entity(se[1], se[2], TypeP, tx, 1, "ner") :
        se \in (0..(Len(txt) + 1)) \X (0..(Len(txt) + 1)),
        tx \in {WrongText}} \cup
    {Entity(se[1], se[2], TypeP, Slice(txt, se[1], se[2]), 1, "ner") : se \in SpansOf(txt)}

RawDetectors(txt) ==
    {Detector(returns) : returns \in SeqsUpTo(RawCandidates(txt), MaxRawReturned)}

InitRaw ==
    /\ phase = "input"
    /\ scanText \in RawTexts
    /\ scanners \in {<<d>> : d \in RawDetectors(NFC(scanText))}
    /\ allowlist = <<>>
    /\ scanOut = NoResult
    /\ StreamIdle /\ RedactIdle

NextRaw == DoScan

SpecRaw == InitRaw /\ [][NextRaw]_vars

-----------------------------------------------------------------------------
(* Scan with one regex scanner on texts that need not be UTF-8.            *)

\* a byte that occurs in no UTF-8 encoding
StrayByte == <<"xFF">>

EncPieces == {<<"a">>, UmlautNFC, StrayByte}

EncTexts == {Flatten(ps) : ps \in SeqsUpTo(EncPieces, MaxEncPieces)}

InitEnc ==
    /\ phase = "input"
    /\ scanText \in EncTexts
    /\ scanners \in {<<s>> : s \in RegexScanners}
    /\ allowlist = <<>>
    /\ scanOut = NoResult
    /\ StreamIdle /\ RedactIdle

NextEnc == DoScan

SpecEnc == InitEnc /\ [][NextEnc]_vars

-----------------------------------------------------------------------------
(* Properties of the streaming restorer.                                   *)

\* The whole input was fed by Process calls and then Flush was called once.
StreamDone == flushes = 1 /\ ~misuse /\ pos = Len(input)

\* C1: on a fresh StreamRestorer, for any mapping table, text and split into
\* chunks, Process(c1) + ... + Process(cn) + Flush() equals Restore(text,
\* mappings) on the whole text.
C1_StreamingEquivalence == StreamDone => emitted = Restore(input, table)

\* C3: with an empty mapping table no byte is lost or duplicated: what was
\* emitted so far followed by the retained buffer is what was fed so far, and
\* after the final Flush the emitted text is the whole input.
C3_NoByteLostOrDuplicated ==
    table = <<>> =>
        /\ emitted \o srBuffer = Slice(input, 0, pos)
        /\ (StreamDone => emitted = input)

\* C3 witness: mid-stream, part of the input emitted and a dangling '[...'
\* retained.
C3_Witness ==
    /\ table = <<>> /\ flushes = 0
    /\ emitted # <<>> /\ srBuffer # <<>> /\ pos = Len(input)

\* What the caller has fed so far, and what the call of a step returned.
Fed == Slice(input, 0, pos)

Returned == Slice(emitted', Len(emitted), Len(emitted'))

\* s ends with the first n bytes of tok, its closing ']' not among them.
EndsInside(s, tok, n) ==
    /\ n >= 1 /\ n < Len(tok) /\ n <= Len(s)
    /\ Slice(s, Len(s) - n, Len(s)) = Slice(tok, 0, n)

\* The bytes of a token still being assembled are all in the buffer.
C11_HeldBack ==
    flushes = 0 =>
        \A k \in 1..Len(table) : \A n \in 1..Len(table[k].Token) :
            EndsInside(Fed, table[k].Token, n) =>
                /\ Len(srBuffer) >= n
                /\ Slice(srBuffer, Len(srBuffer) - n, Len(srBuffer)) = Slice(table[k].Token, 0, n)

\* A Process call whose chunk brings the rest of the token returns the
\* token's original in the token's place, that is first.
C11_CompletedStep ==
    (flushes = 0 /\ pos' > pos) =>
        \A k \in 1..Len(table) : \A n \in 1..Len(table[k].Token) :
            (/\ EndsInside(Fed, table[k].Token, n)
             /\ HasPrefixAt(Slice(input, pos, pos'), 0,
                            Slice(table[k].Token, n, Len(table[k].Token))))
                => HasPrefixAt(Returned, 0, table[k].Original)

\* C11: Process never emits a token that is still being assembled: while the
\* input fed so far ends inside a mapped token none of the token's bytes has
\* been emitted, and the Process call that receives the closing ']' emits
\* the token's original in their place.
C11_NoPartialToken == [][C11_HeldBack' /\ C11_CompletedStep]_vars

\* C12: Flush emits what remains in the buffer, a dangling '[...' prefix
\* literally, and leaves the buffer empty; so a Flush on an empty buffer, as
\* right after another Flush, returns the empty string.
C12_FlushEmitsRemainder ==
    [][flushes' = flushes + 1 =>
          /\ Returned = srBuffer
          /\ srBuffer' = <<>>
          /\ (srBuffer = <<>> => Returned = <<>>)
          /\ (flushes >= 1 /\ ~misuse => Returned = <<>>)]_vars

\* C12 witness: two Flush calls in a row after the whole input was fed, the
\* first of which emitted a dangling "[" literally.
C12_Witness ==
    /\ flushes = 2 /\ ~misuse /\ pos = Len(input) /\ table # <<>>
    /\ Len(input) >= 2 /\ input[Len(input)] = "["
    /\ Len(emitted) >= 1 /\ emitted[Len(emitted)] = "["
    /\ srBuffer = <<>>

\* the positions of the byte c in s
Positions(s, c) == {i \in 1..Len(s) : s[i] = c}

\* s is the suffix of b that starts at b's last '[', and no ']' follows it
OpenSuffix(b, s) ==
    /\ Positions(b, "[") # {}
    /\ LET last == CHOOSE i \in Positions(b, "[") : \A j \in Positions(b, "[") : j <= i
       IN  /\ \A j \in Positions(b, "]") : j < last
           /\ s = SubSeq(b, last, Len(b))

\* the last '[' of b has a ']' behind it, or b has no '['
NothingOpen(b) ==
    \A i \in Positions(b, "[") :
        \E j \in Positions(b, "[") \cup Positions(b, "]") : j > i

\* C27: the buffer invariant.  After every Process call the retained buffer
\* is either empty or exactly the suffix of (previous buffer + chunk) that
\* starts at its last '[' and contains no ']', so it holds one '[', at
\* position 0; it is non-empty exactly when that last '[' has no ']' after it.
C27_BufferInvariant ==
    [][flushes' = flushes =>
          LET b == srBuffer \o Slice(input, pos, pos')
          IN  /\ srBuffer' = <<>> \/ OpenSuffix(b, srBuffer')
              /\ srBuffer' = <<>> <=> NothingOpen(b)
              /\ srBuffer' # <<>> =>
                    /\ Positions(srBuffer', "[") = {1}
                    /\ Positions(srBuffer', "]") = {}]_vars

\* C27 witness: after "a[P_" was fed, "a" has been emitted and the buffer
\* holds "[P_".
C27_Witness ==
    /\ flushes = 0 /\ pos = 4 /\ Fed = <<"a", "[", "P", "_">>
    /\ emitted = <<"a">> /\ srBuffer = <<"[", "P", "_">>

\* C13: a Process call after a Flush is reported as a misuse and is not
\* processed as more input: it returns nothing and leaves the buffer alone.
C13_MisuseReported ==
    [][(flushes >= 1 /\ pos' > pos) => (Returned = <<>> /\ srBuffer' = srBuffer)]_vars

\* The orders in which the goroutines' calls could have run one at a time.
CallOrders ==
    {o \in [Goroutines -> Goroutines] : \A g, h \in Goroutines : g # h => o[g] # o[h]}

\* What the calls were given, one call after the other in the order o.
FedInOrder(o) == Flatten([k \in Goroutines |-> procCalls[o[k]].chunk])

RaceDone == procCalls # <<>> /\ \A g \in Goroutines : procCalls[g].pc = "done"

\* C16: concurrent calls of Process or Flush on one StreamRestorer never
\* lose, duplicate or reorder a chunk's bytes unreported.  Process and Flush
\* return a string and nothing else, so no call reports anything: with an
\* empty mapping table, once all calls have returned, what was returned
\* followed by the buffer is the chunks in the order of some sequence of
\* the calls.
C16_NoSilentCorruption ==
    RaceDone => \E o \in CallOrders : emitted \o srBuffer = FedInOrder(o)

\* The text with every occurrence of a token of the table replaced by that
\* token's original, in one pass from left to right (no two tokens of a
\* table match at one position: each ends at its first ']').
RECURSIVE SubstituteFrom(_, _, _)
SubstituteFrom(s, i, ms) ==
    IF i >= Len(s) THEN <<>>
    ELSE LET here == {k \in 1..Len(ms) : HasPrefixAt(s, i, ms[k].Token)}
         IN  IF here = {} THEN <<s[i + 1]>> \o SubstituteFrom(s, i + 1, ms)
             ELSE LET k == CHOOSE k \in here : \A l \in here : k <= l
                  IN  ms[k].Original \o SubstituteFrom(s, i + Len(ms[k].Token), ms)

Substituted(s, ms) == SubstituteFrom(s, 0, ms)

Reordered(ms) ==
    {[k \in 1..Len(ms) |-> ms[p[k]]] : p \in Permutations(1..Len(ms))}

RestoreReturned == phase = "returned"

\* the text a Process or Flush step hands to replaceMappings: the buffer and
\* the chunk without what the step retains
Safe ==
    LET b == srBuffer \o Slice(input, pos, pos')
    IN  Slice(b, 0, Len(b) - Len(srBuffer'))

\* C29: Restore and StreamRestorer.replaceMappings act as one simultaneous
\* substitution.  Text inserted as a mapping's original is never itself
\* changed by the replacement of another token, so the result holds each
\* original verbatim wherever its token stood in the input.
C29_SimultaneousSubstitution ==
    [][/\ Returned = Substituted(Safe, srMappings)
       /\ Restore(Safe, table) = Substituted(Safe, table)]_vars

\* C21: Restore replaces every occurrence of each mapped token by its own
\* original (a table holding [P_1] and [P_10] restores each correctly), and
\* its result does not depend on the order of the entries of the mapping list.
C21_OwnOriginalAnyOrder ==
    RestoreReturned =>
        /\ restored = Substituted(input, table)
        /\ \A t \in Reordered(table) : Restore(input, t) = restored

\* the test's case: both tokens in the text, the shorter first in the table
C21_LongestFirstCase ==
    /\ RestoreReturned
    /\ Len(table) = 2 /\ table[1].Token = TokP1 /\ table[2].Token = TokP10
    /\ input = TokP1 \o TokP10
    /\ restored = table[1].Original \o table[2].Original

-----------------------------------------------------------------------------
(* Properties of Redact and Restore.                                       *)

Redacted == phase \in {"redacted", "restored"} /\ ~result.panic

\* The candidates are derived from the text itself.
DerivedFrom(txt, ents) ==
    /\ NonOverlapping(ents)
    /\ \A i \in 1..Len(ents) :
          /\ 0 <= ents[i].Start /\ ents[i].Start < ents[i].End /\ ents[i].End <= Len(txt)
          /\ Slice(txt, ents[i].Start, ents[i].End) = ents[i].Text

\* C2: for every text and every candidate set derived from it, Restore of
\* Redact's sanitized text with Redact's mappings is the text again.
C2_RoundTrip ==
    (phase = "restored" /\ DerivedFrom(text, entities)) => restored = text

TagTokens == {result.tags[i].token : i \in 1..Len(result.tags)}

\* C6: within one Redact call identical candidate texts get the same token,
\* distinct candidate texts never share a token, and Mappings holds exactly
\* one entry per distinct token, pairing it with the text it replaced.
C6_OneToOneMappings ==
    Redacted =>
        /\ \A i, j \in 1..Len(result.tags) :
              (result.tags[i].ent.Text = result.tags[j].ent.Text)
                  <=> (result.tags[i].token = result.tags[j].token)
        /\ {result.Mappings[k].Token : k \in 1..Len(result.Mappings)} = TagTokens
        /\ Len(result.Mappings) = Cardinality(TagTokens)
        /\ \A k \in 1..Len(result.Mappings) : \A i \in 1..Len(result.tags) :
              (result.tags[i].token = result.Mappings[k].Token)
                  <=> (result.tags[i].ent.Text = result.Mappings[k].Original)
        /\ Len(result.tags) = Len(entities)

\* C22: every mapping returned by Redact is consistent with its candidate's
\* type: its token is "[" + its type + "_" + N + "]" for a positive integer
\* N, and its type is the type of every candidate replaced by that token.
C22_MappingTypeConsistent ==
    Redacted =>
        \A k \in 1..Len(result.Mappings) :
            /\ \E n \in 1..Len(entities) :
                  result.Mappings[k].Token = FormatToken(result.Mappings[k].Type, n)
            /\ \A i \in 1..Len(result.tags) :
                  (result.tags[i].token = result.Mappings[k].Token)
                      => (result.tags[i].ent.Type = result.Mappings[k].Type)

\* buf when the backward pass is about to splice tag i: the tags behind i
\* have been spliced
BufferAt(i) ==
    ReplaceBackward(text, SubSeq(result.tags, i + 1, Len(result.tags))).buf

\* C23: the empty case.  Redact(text, []) returns SanitizedText = text,
\* OriginalText = text and an empty mapping list, for every text including
\* the empty string, and never fails.
RedactReturned == phase \in {"redacted", "restored"}

C23_EmptyCase ==
    (RedactReturned /\ entities = <<>>) =>
        /\ ~result.panic
        /\ result.SanitizedText = text
        /\ result.OriginalText = text
        /\ result.Mappings = <<>>

\* C23 witness: Redact has returned for a text of two bytes and no candidate.
C23_Witness ==
    /\ phase = "redacted" /\ entities = <<>> /\ text = <<"a", "b">>
    /\ result.SanitizedText = <<"a", "b">> /\ result.Mappings = <<>>

\* C30: Redact is safe for every in-bounds candidate list.  For candidates
\* with 0 <= start <= end <= len(text), overlapping and nested ones
\* included, every splice of the backward pass addresses a range inside the
\* current buffer, so Redact returns a result and never fails with an
\* out-of-range access.
C30_InBoundsNeverPanics ==
    RedactReturned =>
        /\ ~result.panic
        /\ \A i \in 1..Len(result.tags) : SpliceOk(BufferAt(i), result.tags[i])

\* C6 witness: three candidates, the first and the last with the same text
\* and another text between them, give two mappings.
C6_Witness ==
    /\ Redacted /\ Len(result.tags) = 3 /\ Len(result.Mappings) = 2
    /\ result.tags[1].ent.Text = result.tags[3].ent.Text
    /\ result.tags[1].ent.Text # result.tags[2].ent.Text
    /\ result.tags[1].ent.Type = result.tags[2].ent.Type

EntitySet == {entities[i] : i \in 1..Len(entities)}

\* The first occurrence, by start offset, of a candidate's text.
FirstOf(e) ==
    CHOOSE f \in EntitySet :
        /\ f.Text = e.Text
        /\ \A g \in EntitySet : g.Text = e.Text => f.Start <= g.Start

\* The texts first seen with the type of f, at or before f.
SeenBefore(f) ==
    {g.Text : g \in {h \in EntitySet :
                        /\ FirstOf(h) = h
                        /\ h.Type = f.Type
                        /\ h.Start <= f.Start}}

ExpectedToken(e) == FormatToken(FirstOf(e).Type, Cardinality(SeenBefore(FirstOf(e))))

\* C7: whatever order the candidates are passed in, each type's tokens are
\* numbered 1, 2, 3, ... without gaps in order of the first occurrence, by
\* ascending start offset, of the text they stand for, and a text of one type
\* does not advance the number of another type.
C7_ReadingOrderNumbering ==
    Redacted =>
        /\ {result.tags[i].ent : i \in 1..Len(result.tags)} = EntitySet
        /\ \A i \in 1..Len(result.tags) :
              result.tags[i].token = ExpectedToken(result.tags[i].ent)

\* C7 witness: three candidates of two types passed out of reading order;
\* type P reaches number 2 and type Q has its own number 1.
C7_Witness ==
    /\ Redacted /\ Len(entities) = 3
    /\ entities[1].Start > entities[2].Start
    /\ FormatToken(TypeP, 2) \in TagTokens
    /\ FormatToken(TypeQ, 1) \in TagTokens
    /\ result.tags[2].token = FormatToken(TypeQ, 1)

\* C17: Redact calls never interfere: under any interleaving of concurrent
\* calls, and when a call is repeated with the same arguments, every call
\* returns the tokens, the sanitized text and the mappings it returns when
\* run alone, numbering from 1.
C17_RedactCallsIndependent ==
    redactCalls # <<>> =>
        \A g \in Goroutines :
            redactCalls[g].pc = "done" =>
                redactCalls[g].result = Redact(redactCalls[g].text, redactCalls[g].entities)

\* C17 witness: two goroutines were given the same text and the same two
\* entities; the second has returned, with the tokens numbered 1 and 2,
\* while the first is between its two counter.Next calls.
C17_Witness ==
    /\ redactCalls # <<>>
    /\ redactCalls[1].text = redactCalls[2].text
    /\ redactCalls[1].entities = redactCalls[2].entities
    /\ Len(redactCalls[1].entities) = 2
    /\ redactCalls[1].pc = "tag" /\ Len(redactCalls[1].tags) = 1
    /\ redactCalls[2].pc = "done"
    /\ {redactCalls[2].result.tags[i].token : i \in 1..2}
          = {FormatToken(TypeP, 1), FormatToken(TypeP, 2)}

-----------------------------------------------------------------------------
(* Properties of CompositeScanner.Scan.                                    *)

Scanned == phase # "input" /\ scanOut # NoResult

Range(q) == {q[i] : i \in 1..Len(q)}

\* C4: for any candidate lists returned by the detectors, the output of Scan
\* is sorted by start ascending and, for any a before b in it,
\* a.End <= b.Start.
C4_OrderedNonOverlapping ==
    Scanned =>
        \A i, j \in 1..Len(scanOut.out) :
            i < j => /\ scanOut.out[i].Start <= scanOut.out[j].Start
                     /\ scanOut.out[i].End <= scanOut.out[j].Start

\* C4 witness: three candidates returned out of start order, two kept, one
\* dropped for overlapping.
C4_Witness ==
    /\ Scanned /\ Len(scanOut.all) = 3 /\ Len(scanOut.out) = 2
    /\ scanOut.all[1].Start > scanOut.all[2].Start
    /\ allowlist = <<>>

\* Two overlapping detector candidates of different lengths at one start.
SameStartPair(short, long) ==
    /\ short \in Range(scanOut.all) /\ long \in Range(scanOut.all)
    /\ short.Start = long.Start
    /\ short.Start < short.End
    /\ short.End < long.End

\* C5 as claimed: of two overlapping detector candidates of different lengths
\* at the same start, the output always contains the longer one and not the
\* shorter one.
C5_LongerAlwaysKept ==
    Scanned =>
        \A short, long \in Range(scanOut.all) :
            SameStartPair(short, long) =>
                long \in Range(scanOut.out) /\ short \notin Range(scanOut.out)

\* A candidate the sweep kept that bars c: it reaches past c's start and
\* starts earlier, or starts with c and is at least as long.
BarredBy(c, d) ==
    /\ d # c
    /\ d.Start <= c.Start /\ c.Start < d.End
    /\ (d.Start < c.Start \/ d.End >= c.End)

MatchesAllowlist(c) == \E k \in 1..Len(allowlist) : Contains(c.Text, allowlist[k])

\* C5 as amended: the output never contains the shorter one, and it contains
\* the longer one unless a candidate kept by the sweep bars it or its text
\* matches an allowlist pattern.
C5_ShorterNeverKept ==
    Scanned =>
        \A short, long \in Range(scanOut.all) :
            SameStartPair(short, long) =>
                /\ short \notin Range(scanOut.out)
                /\ \/ long \in Range(scanOut.out)
                   \/ MatchesAllowlist(long)
                   \/ \E d \in Range(scanOut.deduped) : BarredBy(long, d)

\* C5 witness: the shorter candidate is returned first, the longer one is in
\* the output and the shorter one is not.
C5_Witness ==
    /\ Scanned /\ Len(scanOut.all) >= 2
    /\ SameStartPair(scanOut.all[1], scanOut.all[2])
    /\ scanOut.all[2] \in Range(scanOut.out)
    /\ scanOut.all[1] \notin Range(scanOut.out)

\* The offset invariant of a candidate c of the normalized text txt.
ValidCandidate(txt, c) ==
    /\ 0 <= c.Start /\ c.Start < c.End /\ c.End <= Len(txt)
    /\ Slice(txt, c.Start, c.End) = c.Text

\* What the merge returns for the valid candidates of the list alone.
MergedValid ==
    LET valid == SelectSeq2(scanOut.all,
                            [k \in 1..Len(scanOut.all) |->
                                ValidCandidate(scanOut.text, scanOut.all[k])])
    IN  Scan(<<Detector(valid)>>, allowlist, scanText).out

\* C14: a candidate that violates the offset invariant (start or end out of
\* bounds, start >= end, or a text that is not the span's) never appears in
\* the output of Scan, and the valid candidates are merged and returned as
\* if it had not been there.
C14_InvalidDropped ==
    Scanned =>
        /\ \A c \in Range(scanOut.out) : ValidCandidate(scanOut.text, c)
        /\ scanOut.out = MergedValid

\* UTF-8 over the bytes of the model: one-byte characters, the two-byte
\* characters of a lead byte and a continuation byte, and nothing else.
LeadBytes == {"xC3", "xCC"}
ContinuationBytes == {"xBC", "x88"}

RECURSIVE ValidUTF8(_)
ValidUTF8(s) ==
    IF s = <<>> THEN TRUE
    ELSE IF Head(s) \in LeadBytes
         THEN Len(s) >= 2 /\ s[2] \in ContinuationBytes /\ ValidUTF8(SubSeq(s, 3, Len(s)))
    ELSE IF Head(s) \in ContinuationBytes \cup {"xFF"} THEN FALSE
    ELSE ValidUTF8(Tail(s))

\* C15: Scan on a text that is not valid UTF-8 fails before normalization
\* and before any detector runs: no detector's candidates are collected and
\* no candidate is returned.
C15_EncodingFailsFast ==
    (Scanned /\ ~ValidUTF8(scanText)) => (scanOut.all = <<>> /\ scanOut.out = <<>>)

\* A candidate without its score, and a candidate list with the scores f.
Unscored(c) == [Start |-> c.Start, End |-> c.End, Type |-> c.Type, Text |-> c.Text]

Rescored(all, f) == [k \in 1..Len(all) |-> [all[k] EXCEPT !.Score = f[k]]]

UnscoredList(l) == [k \in 1..Len(l) |-> Unscored(l[k])]

\* C18: the merge ignores score: a second run of Scan whose detector
\* candidates differ from this run's only in their scores keeps candidates
\* with exactly the same (start, end, type, text).
C18_ScoreIgnored ==
    Scanned =>
        \A f \in [1..Len(scanOut.all) -> Scores] :
            UnscoredList(Scan(<<Detector(Rescored(scanOut.all, f))>>, allowlist, scanText).out)
                = UnscoredList(scanOut.out)

\* C18 witness: of two candidates that overlap in part the later one has the
\* higher score, and the earlier one alone is kept.
C18_Witness ==
    /\ Scanned /\ Len(scanOut.all) = 2
    /\ scanOut.all[1].Start < scanOut.all[2].Start
    /\ scanOut.all[2].Start < scanOut.all[1].End
    /\ scanOut.all[1].Score < scanOut.all[2].Score
    /\ scanOut.out = <<scanOut.all[1]>>

\* Two candidates that start together; both cover the byte at the start.
SameStartOverlap(a, b) ==
    /\ a \in Range(scanOut.all) /\ b \in Range(scanOut.all)
    /\ a.Start = b.Start /\ a.Start < a.End /\ b.Start < b.End

\* C19 as claimed: the candidates are sorted by (start asc, score desc,
\* length desc), and of two overlapping candidates with the same start the
\* one with the higher score is the one kept in the output.
C19_HigherScoreKept ==
    Scanned =>
        /\ \A i, j \in 1..Len(scanOut.sorted) :
              (i < j /\ scanOut.sorted[i].Start = scanOut.sorted[j].Start)
                  => scanOut.sorted[i].Score >= scanOut.sorted[j].Score
        /\ \A a, b \in Range(scanOut.all) :
              (SameStartOverlap(a, b) /\ a.Score > b.Score)
                  => (a \in Range(scanOut.out) /\ b \notin Range(scanOut.out))

\* C19 as amended: the candidates are sorted by (start asc, length desc),
\* whatever their scores, and of two overlapping candidates with the same
\* start the shorter one is never kept in the output, even when its score
\* is the higher one.
C19_LongerKeptWhateverScore ==
    Scanned =>
        /\ \A i, j \in 1..Len(scanOut.sorted) :
              i < j =>
                  \/ scanOut.sorted[i].Start < scanOut.sorted[j].Start
                  \/ /\ scanOut.sorted[i].Start = scanOut.sorted[j].Start
                     /\ scanOut.sorted[i].End >= scanOut.sorted[j].End
        /\ \A a, b \in Range(scanOut.all) :
              (SameStartOverlap(a, b) /\ a.Score > b.Score /\ a.End < b.End)
                  => a \notin Range(scanOut.out)

\* C19 witness: the shorter candidate is returned first and has the higher
\* score, the longer one starts with it, and the longer one alone is kept.
C19_Witness ==
    /\ Scanned /\ Len(scanOut.all) = 2
    /\ SameStartOverlap(scanOut.all[1], scanOut.all[2])
    /\ scanOut.all[1].Score > scanOut.all[2].Score
    /\ scanOut.all[1].End < scanOut.all[2].End
    /\ scanOut.out = <<scanOut.all[2]>>

\* C20: scanner order decides overlap resolution.  When several scanners
\* return a candidate with the same start and the same length, the candidate
\* of that span in the output is the one of the scanner that comes first in
\* the scanner list (the first of them in the collected list), for candidate
\* lists of any size.
SameSpan(a, b) == a.Start = b.Start /\ a.End = b.End

FirstWithSpan(all, e) ==
    all[CHOOSE i \in 1..Len(all) :
            /\ SameSpan(all[i], e)
            /\ \A j \in 1..(i - 1) : ~SameSpan(all[j], e)]

C20_FirstScannerWins ==
    Scanned =>
        \A k \in 1..Len(scanOut.out) :
            scanOut.out[k] = FirstWithSpan(scanOut.all, scanOut.out[k])

\* the claim's case on a list that insertion sort alone orders
C20_SmallListCase ==
    /\ Scanned /\ Len(scanOut.all) <= ShellGap
    /\ \E i, j \in 1..Len(scanOut.all) :
            i < j /\ SameSpan(scanOut.all[i], scanOut.all[j])
    /\ C20_FirstScannerWins

\* C25: the sweep keeps a maximal set.  With an empty allowlist every
\* detector candidate with start < end that is missing from the output of
\* Scan overlaps a candidate that is in the output and starts no later.
C25_MaximalSet ==
    (Scanned /\ allowlist = <<>>) =>
        \A c \in Range(scanOut.all) :
            (c.Start < c.End /\ c \notin Range(scanOut.out)) =>
                \E d \in Range(scanOut.out) : d.Start <= c.Start /\ Overlap(c, d)

\* C25 witness: with no allowlist, one candidate is missing from the output
\* for overlapping a kept candidate that starts before it, and a candidate
\* that starts where the kept one ends is in the output.
C25_Witness ==
    /\ Scanned /\ allowlist = <<>>
    /\ \E c \in Range(scanOut.all) : \E d, e \in Range(scanOut.out) :
          /\ c \notin Range(scanOut.out)
          /\ d.Start < c.Start /\ Overlap(c, d)
          /\ e.Start = d.End

\* s can be obtained from t by deleting elements
RECURSIVE Subsequence(_, _)
Subsequence(s, t) ==
    IF s = <<>> THEN TRUE
    ELSE IF t = <<>> THEN FALSE
    ELSE IF Head(s) = Head(t) THEN Subsequence(Tail(s), Tail(t))
    ELSE Subsequence(s, Tail(t))

\* what Scan returns for the same text and scanners without an allowlist,
\* its sort leaving the list in the same order
WithoutAllowlist ==
    {r \in ScanOutcomes(scanners, <<>>, scanText) : r.sorted = scanOut.sorted}

\* C28: the allowlist only removes.  For the same text and detectors the
\* output of Scan with an allowlist is a subsequence of its output without
\* one: a candidate discarded for overlapping an allowlisted candidate is
\* never reinstated.
C28_AllowlistOnlyRemoves ==
    Scanned =>
        /\ WithoutAllowlist # {}
        /\ \A r \in WithoutAllowlist : Subsequence(scanOut.out, r.out)

\* C28 witness: a candidate matched by the allowlist survived the sweep and
\* is not in the output, a candidate it overlaps was discarded and is not in
\* the output either, and a third candidate is.
C28_Witness ==
    /\ Scanned /\ allowlist # <<>> /\ scanOut.out # <<>>
    /\ \E c \in Range(scanOut.deduped) : \E d \in Range(scanOut.all) :
          /\ MatchesAllowlist(c) /\ c \notin Range(scanOut.out)
          /\ ~MatchesAllowlist(d) /\ Overlap(c, d)
          /\ d \notin Range(scanOut.deduped) /\ d \notin Range(scanOut.out)

\* C8: no candidate of the output has a text matched by an allowlist
\* pattern, and every candidate that survived overlap resolution and
\* matches no allowlist pattern is in the output, in the order of the sweep.
C8_AllowlistExclusion ==
    Scanned =>
        /\ \A e \in Range(scanOut.out) : ~MatchesAllowlist(e)
        /\ \A e \in Range(scanOut.deduped) :
              ~MatchesAllowlist(e) => e \in Range(scanOut.out)
        /\ \A i, j \in 1..Len(scanOut.out) :
              i < j => scanOut.out[i].Start <= scanOut.out[j].Start
        /\ Range(scanOut.out) \subseteq Range(scanOut.deduped)

\* C8 witness: a two-pattern allowlist; one surviving candidate matches only
\* the second pattern and is dropped, another matches none and is kept.
C8_Witness ==
    /\ Scanned /\ Len(allowlist) = 2
    /\ \E e \in Range(scanOut.deduped) :
          /\ ~Contains(e.Text, allowlist[1]) /\ Contains(e.Text, allowlist[2])
          /\ e \notin Range(scanOut.out)
    /\ scanOut.out # <<>>

\* C9: every candidate of the output lies in the NFC form N of the input
\* with 0 <= start < end <= len(N) and N[start:end] equal to its text, also
\* for multi-byte text.
C9_OffsetIntegrity ==
    Scanned =>
        \A e \in Range(scanOut.out) :
            /\ 0 <= e.Start /\ e.Start < e.End /\ e.End <= Len(NFC(scanText))
            /\ Slice(NFC(scanText), e.Start, e.End) = e.Text

\* C9 witness: the input is not in NFC, a candidate lies behind a composed
\* character and another has a multi-byte text.
C9_Witness ==
    /\ Scanned /\ scanText # NFC(scanText)
    /\ \E e \in Range(scanOut.out) : e.Start >= 2 /\ e.Text = <<"a">>
    /\ \E e \in Range(scanOut.out) : e.Text = UmlautNFC

\* the texts of the model with the NFC form of t
SameNFC(t) == {u \in NormTexts : NFC(u) = NFC(t)}

\* C24: Scan is invariant under the normalization form.  Every scanner is
\* run on the NFC form of the input, never on the input as passed, so two
\* inputs with one NFC form yield the same candidate list (offsets, types
\* and texts).
C24_NormalizationInvariant ==
    Scanned =>
        /\ scanOut.all = CollectAll(scanners, NFC(scanText))
        /\ \A u \in SameNFC(scanText) :
              /\ scanOut \in ScanOutcomes(scanners, allowlist, u)
              /\ ScanOutcomes(scanners, allowlist, u)
                    = ScanOutcomes(scanners, allowlist, scanText)

\* C24 witness: the input spells the umlaut decomposed, another text of the
\* model spells it composed, and the output holds the composed umlaut at
\* the offsets of the NFC form.
C24_Witness ==
    /\ Scanned /\ scanText = UmlautNFD \o <<"a">>
    /\ UmlautNFC \o <<"a">> \in SameNFC(scanText)
    /\ \E e \in Range(scanOut.out) : e.Start = 0 /\ e.End = 2 /\ e.Text = UmlautNFC

\* The text n with the span of every tag replaced by the tag's token; the
\* tags are in ascending start order and do not overlap.
SplicedText(n, tags) ==
    LET prevEnd(i) == IF i = 1 THEN 0 ELSE tags[i - 1].ent.End
        f[i \in 0..Len(tags)] ==
            IF i = 0 THEN <<>>
            ELSE f[i - 1] \o Slice(n, prevEnd(i), tags[i].ent.Start) \o tags[i].token
    IN  f[Len(tags)] \o Slice(n, prevEnd(Len(tags) + 1), Len(n))

\* C10: when the text passed to Redact is not NFC-normalized and the
\* candidates' offsets refer to its NFC form, as Scan produces them, the
\* sanitized text is the NFC form of the text with each candidate span
\* replaced by its token.
C10_RedactSplicesNormalized ==
    (Redacted /\ text # NFC(text) /\ entities # <<>>)
        => result.SanitizedText = SplicedText(NFC(text), result.tags)

\* C26: reverse-order splicing keeps offsets valid.  For in-bounds, pairwise
\* non-overlapping candidates passed in any order, when Redact splices
\* candidate i the buffer up to candidate i's end is still the input text's,
\* so the sanitized text is the input with each span replaced by its token
\* and every byte outside the spans kept in place and in order.
C26_ReverseSplicing ==
    (RedactReturned /\ DerivedFrom(text, entities)) =>
        /\ ~result.panic
        /\ \A i \in 1..Len(result.tags) :
              Slice(BufferAt(i), 0, result.tags[i].ent.End)
                  = Slice(text, 0, result.tags[i].ent.End)
        /\ result.SanitizedText = SplicedText(text, result.tags)

\* C26 witness: two candidates passed out of start order with text between
\* them; the later span has been spliced, the text grew, and the buffer up
\* to the earlier candidate's end is the input's when it is spliced.
C26_Witness ==
    /\ phase = "redacted" /\ DerivedFrom(text, entities) /\ Len(entities) = 2
    /\ entities[1].Start > entities[2].End
    /\ Len(result.SanitizedText) > Len(text)
    /\ result.SanitizedText = SplicedText(text, result.tags)
    /\ Slice(BufferAt(1), 0, result.tags[1].ent.End) = Slice(text, 0, result.tags[1].ent.End)
    /\ BufferAt(1) # text

=============================================================================
